---- MODULE Spec2Model ----
(***************************************************************************)
(* Model of two units of great_expectations:                               *)
(*   - ExpectQueriedColumnToBeHK (validate_configuration, _validate)       *)
(*   - FileDataContext (global usage-statistics opt-out and global config  *)
(*     value resolution from the environment and the global config files)  *)
(*                                                                         *)
(* Fractions are exact multiples of 1/Denom: the number n stands for       *)
(* n/Denom, so that Denom itself stands for 1.                             *)
(*                                                                         *)
(* Scope of the model:                                                     *)
(*   - sums and comparisons of fractions are exact, where the code works   *)
(*     on floats;                                                          *)
(*   - super().validate_configuration is taken to return normally and the  *)
(*     configuration passed in is never None;                              *)
(*   - a global config file is either absent or an INI file configparser   *)
(*     can parse, whose values use no % interpolation.                     *)
(***************************************************************************)
EXTENDS Integers, Sequences, FiniteSets, TLC

VARIABLES configuration, metrics, pc, error, result,
          environ, files, call, ret

hkVars == <<configuration, metrics, pc, error, result>>
gcVars == <<environ, files, call, ret>>
vars == <<configuration, metrics, pc, error, result, environ, files, call, ret>>

(***************************************************************************)
(* Bounds of the model                                                     *)
(***************************************************************************)
\* longest list given as 'value' or 'threshold'
MaxLen == 2
\* resolution of fractions: the fraction 1 is Denom
Denom == 4

(***************************************************************************)
(* Python values that reach the expectation as kwargs                      *)
(***************************************************************************)
None == [kind |-> "NoneType", num |-> 0, items |-> <<>>]
Number(n) == [kind |-> "number", num |-> n, items |-> <<>>]
Str == [kind |-> "str", num |-> 0, items |-> <<>>]
\* the builtin class int itself
IntType == [kind |-> "type", num |-> 0, items |-> <<>>]
List(s) == [kind |-> "list", num |-> 0, items |-> s]

isinstance_number(x) == x.kind = "number"
isinstance_list(x) == x.kind = "list"

SeqsUpTo(S, n) == UNION {[1..k -> S] : k \in 0..n}

RECURSIVE SumFrom(_, _)
SumFrom(s, i) == IF i > Len(s) THEN 0 ELSE s[i].num + SumFrom(s, i + 1)
\* builtin sum() over a list of numbers
sum(s) == SumFrom(s, 1)

\* default_kwarg_values["value"]
DefaultValue == 32
\* default_kwarg_values["threshold"], the fraction 1
DefaultThreshold == Denom
default_kwarg_values == [value |-> Number(DefaultValue), threshold |-> Number(DefaultThreshold)]

\* string lengths that occur as targets and as keys of the query result
Lengths == {16, DefaultValue}
\* fractions offered as thresholds: below 0, 0, inside (0,1], 1, above 1
ThresholdNums == (0 - 1)..(Denom + 1)

ValueInputs ==
    {Str, IntType} \cup {Number(n) : n \in Lengths}
    \cup {List(s) : s \in SeqsUpTo({Number(n) : n \in Lengths}, MaxLen)}
ThresholdInputs ==
    {Str} \cup {Number(n) : n \in ThresholdNums}
    \cup {List(s) : s \in SeqsUpTo({Number(n) : n \in ThresholdNums} \cup {Str}, MaxLen)}

\* configuration["kwargs"]: a dict holding any subset of the two keys
KwargsInputs ==
    { kw \in UNION {[D -> ValueInputs \cup ThresholdInputs] : D \in SUBSET {"value", "threshold"}} :
        /\ ("value" \in DOMAIN kw => kw["value"] \in ValueInputs)
        /\ ("threshold" \in DOMAIN kw => kw["threshold"] \in ThresholdInputs) }

\* metrics["query.column"] as a dict: observed length -> fraction of rows
MetricsInputs == UNION {[D -> 0..Denom] : D \in SUBSET Lengths}

\* dict.get(key) with the default None
get(kwargs, key) == IF key \in DOMAIN kwargs THEN kwargs[key] ELSE None

(***************************************************************************)
(* validate_configuration                                                  *)
(***************************************************************************)
\* assert value is not int
ValueAssertion(value) == value # IntType

ThresholdAssertionNoSum(threshold) ==
    \/ isinstance_number(threshold) /\ 0 < threshold.num /\ threshold.num <= Denom
    \/ /\ isinstance_list(threshold)
       /\ \A i \in 1..Len(threshold.items) : isinstance_number(threshold.items[i])
       /\ \A i \in 1..Len(threshold.items) :
            0 < threshold.items[i].num /\ threshold.items[i].num <= Denom

\* the assertion on 'threshold'
ThresholdAssertion(threshold) ==
    \/ isinstance_number(threshold) /\ 0 < threshold.num /\ threshold.num <= Denom
    \/ /\ isinstance_list(threshold)
       /\ \A i \in 1..Len(threshold.items) : isinstance_number(threshold.items[i])
       /\ \A i \in 1..Len(threshold.items) :
            0 < threshold.items[i].num /\ threshold.items[i].num <= Denom
       /\ 0 < sum(threshold.items) /\ sum(threshold.items) <= Denom

ShapeAssertionNoLen(value, threshold) ==
    isinstance_list(threshold) => isinstance_list(value)

\* if isinstance(threshold, list): assert value is a list of the same length
ShapeAssertion(value, threshold) ==
    isinstance_list(threshold) =>
        (isinstance_list(value) /\ Len(value.items) = Len(threshold.items))

\* the exception validate_configuration raises for these kwargs, "" if none
ValidateConfigurationError(kwargs) ==
    LET value == get(kwargs, "value")
        threshold == get(kwargs, "threshold")
    IN  IF /\ ValueAssertion(value)
           /\ ThresholdAssertion(threshold)
           /\ ShapeAssertion(value, threshold)
        THEN ""
        ELSE "InvalidExpectationConfigurationError"

(***************************************************************************)
(* _validate                                                               *)
(***************************************************************************)
NoResult == [exc |-> "", returned |-> FALSE, success |-> FALSE, observed_value |-> None]
Raised(e) == [exc |-> e, returned |-> FALSE, success |-> FALSE, observed_value |-> None]
Returned(s, o) == [exc |-> "", returned |-> TRUE, success |-> s, observed_value |-> o]

\* key in query_result (keys of the dict are integers)
HasKey(query_result, key) == key.kind = "number" /\ key.num \in DOMAIN query_result

CompareGt(observed, threshold) == observed > threshold

\* query_result[...] >= threshold on two numbers
Compare(observed, threshold) == observed >= threshold

\* all(query_result[value[i]] >= threshold[i] for i in range(len(value))),
\* evaluated left to right and stopping at the first False:
\* "True", "False", or the name of the exception raised on the way
RECURSIVE AllFrom(_, _, _, _)
AllFrom(query_result, value, threshold, i) ==
    IF i > Len(value.items) THEN "True"
    ELSE IF ~HasKey(query_result, value.items[i]) THEN "KeyError"
    ELSE IF ~isinstance_list(threshold) THEN "TypeError"
    ELSE IF i > Len(threshold.items) THEN "IndexError"
    ELSE IF ~isinstance_number(threshold.items[i]) THEN "TypeError"
    ELSE IF Compare(query_result[value.items[i].num], threshold.items[i].num)
         THEN AllFrom(query_result, value, threshold, i + 1)
         ELSE "False"

\* the generator handed to all()
SequenceSuccess(query_result, value, threshold) ==
    AllFrom(query_result, value, threshold, 1)

\* [query_result[value[i]] for i in range(len(value))]
ObservedList(query_result, value) ==
    [i \in 1..Len(value.items) |-> Number(query_result[value.items[i].num])]

\* the result of _validate: the dict returned or the exception raised
ValidateResult(kwargs, query_result) ==
    LET value == get(kwargs, "value")
        threshold == get(kwargs, "threshold")
    IN  IF isinstance_list(value)
        THEN LET success == SequenceSuccess(query_result, value, threshold)
             IN  IF success \notin {"True", "False"} THEN Raised(success)
                 ELSE IF \E i \in 1..Len(value.items) : ~HasKey(query_result, value.items[i])
                      THEN Raised("KeyError")
                      ELSE Returned(success = "True", List(ObservedList(query_result, value)))
        ELSE IF ~HasKey(query_result, value) THEN Raised("KeyError")
        ELSE IF ~isinstance_number(threshold) THEN Raised("TypeError")
        ELSE Returned(Compare(query_result[value.num], threshold.num),
                      Number(query_result[value.num]))

(***************************************************************************)
(* FileDataContext: process environment and global config files            *)
(***************************************************************************)
\* AbstractDataContext.FALSEY_STRINGS
FALSEY_STRINGS == {"FALSE", "false", "False", "f", "F", "0"}
\* AbstractDataContext.GLOBAL_CONFIG_PATHS, in lookup order
GLOBAL_CONFIG_PATHS == <<"~/.great_expectations/great_expectations.conf", "/etc/great_expectations.conf">>

EnvVars == {"GE_USAGE_STATS", "GE_DATA_CONTEXT_ID"}
Sections == {"anonymous_usage_statistics"}
Options == {"enabled", "data_context_id"}

\* strings offered as GE_USAGE_STATS and as the option 'enabled'
EnabledStrings == {"", "False", "F", "0", "no", "off", "True", "yes", "maybe"}
\* strings offered as the other environment variables and options
ValueStrings == {"", "id-a", "id-b"}

\* os.environ: any subset of the variables, each set to a string
EnvironInputs(names, strings) == UNION {[D -> strings] : D \in SUBSET names}

\* a config file: absent from disk, or an INI file with its sections
MissingFile == [exists |-> FALSE, sections |-> <<>>]
FileInputs(options, strings) ==
    {MissingFile}
    \cup {[exists |-> TRUE, sections |-> sec] :
            sec \in UNION {[D -> UNION {[O -> strings] : O \in SUBSET options}] :
                            D \in SUBSET Sections}}

Paths == {GLOBAL_CONFIG_PATHS[i] : i \in DOMAIN GLOBAL_CONFIG_PATHS}

\* str.lower() on the strings of the model
lower(str) ==
    CASE str \in {"False", "FALSE"} -> "false"
      [] str \in {"True", "TRUE"} -> "true"
      [] str = "F" -> "f"
      [] OTHER -> str

\* configparser.ConfigParser.BOOLEAN_STATES
DEFAULT_BOOLEAN_STATES ==
    [k \in {"1", "yes", "true", "on", "0", "no", "false", "off"} |->
        k \in {"1", "yes", "true", "on"}]

\* BOOLEAN_STATES after the falsey strings, "TRUE" and "True" are added
BOOLEAN_STATES ==
    [k \in DOMAIN DEFAULT_BOOLEAN_STATES \cup FALSEY_STRINGS \cup {"TRUE", "True"} |->
        IF k \in {"TRUE", "True"} THEN TRUE
        ELSE IF k \in FALSEY_STRINGS THEN FALSE
        ELSE DEFAULT_BOOLEAN_STATES[k]]

\* config.read(config_path): a file that is not there reads as no sections
read(config_path) == IF files[config_path].exists THEN files[config_path].sections ELSE <<>>

has_option(config, section, option) ==
    section \in DOMAIN config /\ option \in DOMAIN config[section]

\* return values and exceptions of the FileDataContext methods
RetNone == [kind |-> "None", b |-> FALSE, s |-> ""]
RetBool(b) == [kind |-> "bool", b |-> b, s |-> ""]
RetStr(s) == [kind |-> "str", b |-> FALSE, s |-> s]
RetRaise(e) == [kind |-> "raise", b |-> FALSE, s |-> e]

\* the last call made on the context: the method and its arguments
NoCall == [op |-> "", environment_variable |-> "", conf_file_section |-> "", conf_file_option |-> ""]
Call(op, ev, sec, opt) ==
    [op |-> op, environment_variable |-> ev, conf_file_section |-> sec, conf_file_option |-> opt]

\* config.get(section, option, fallback=None)
config_get(config, section, option) ==
    IF has_option(config, section, option) THEN RetStr(config[section][option]) ELSE RetNone

\* config.getboolean(section, option)
getboolean(config, section, option) ==
    IF section \notin DOMAIN config THEN RetRaise("NoSectionError")
    ELSE IF option \notin DOMAIN config[section] THEN RetRaise("NoOptionError")
    ELSE IF lower(config[section][option]) \notin DOMAIN BOOLEAN_STATES THEN RetRaise("ValueError")
    ELSE RetBool(BOOLEAN_STATES[lower(config[section][option])])

\* os.environ.get(name, False) is truthy
environ_truthy(name) == name \in DOMAIN environ /\ environ[name] # ""

(***************************************************************************)
(* _check_global_usage_statistics_env_var_and_file_opt_out                 *)
(***************************************************************************)
\* the loop over GLOBAL_CONFIG_PATHS from position i on
RECURSIVE FileOptOutFrom(_)
FileOptOutFrom(i) ==
    IF i > Len(GLOBAL_CONFIG_PATHS) THEN FALSE
    ELSE IF getboolean(read(GLOBAL_CONFIG_PATHS[i]), "anonymous_usage_statistics", "enabled")
              = RetBool(FALSE)
         THEN TRUE
         ELSE FileOptOutFrom(i + 1)

EnvVarDecidesOptOut ==
    IF environ_truthy("GE_USAGE_STATS")
    THEN RetBool(environ["GE_USAGE_STATS"] \in FALSEY_STRINGS)
    ELSE RetBool(FileOptOutFrom(1))

check_global_usage_statistics_env_var_and_file_opt_out ==
    IF environ_truthy("GE_USAGE_STATS") /\ environ["GE_USAGE_STATS"] \in FALSEY_STRINGS
    THEN RetBool(TRUE)
    ELSE RetBool(FileOptOutFrom(1))

(***************************************************************************)
(* _get_global_config_value                                                *)
(***************************************************************************)
\* the loop over GLOBAL_CONFIG_PATHS from position i on
RECURSIVE ConfigValueFrom(_, _, _)
ConfigValueFrom(i, conf_file_section, conf_file_option) ==
    IF i > Len(GLOBAL_CONFIG_PATHS) THEN RetNone
    ELSE LET config_value ==
                config_get(read(GLOBAL_CONFIG_PATHS[i]), conf_file_section, conf_file_option)
         IN  IF config_value.kind = "str" /\ config_value.s # ""
             THEN config_value
             ELSE ConfigValueFrom(i + 1, conf_file_section, conf_file_option)

\* the same loop where a later path overrides an earlier one
RECURSIVE ConfigValueLastFrom(_, _, _)
ConfigValueLastFrom(i, conf_file_section, conf_file_option) ==
    IF i < 1 THEN RetNone
    ELSE LET config_value ==
                config_get(read(GLOBAL_CONFIG_PATHS[i]), conf_file_section, conf_file_option)
         IN  IF config_value.kind = "str" /\ config_value.s # ""
             THEN config_value
             ELSE ConfigValueLastFrom(i - 1, conf_file_section, conf_file_option)

ConfigValueLastWins(conf_file_section, conf_file_option) ==
    ConfigValueLastFrom(Len(GLOBAL_CONFIG_PATHS), conf_file_section, conf_file_option)

\* for config_path in GLOBAL_CONFIG_PATHS: ... return the first truthy value
ConfigValueFromPaths(conf_file_section, conf_file_option) ==
    ConfigValueFrom(1, conf_file_section, conf_file_option)

\* arguments that are None or "" are both written "": the code only tests
\* their truth value
get_global_config_value(environment_variable, conf_file_section, conf_file_option) ==
    IF ~ \/ (conf_file_section # "" /\ conf_file_option # "")
         \/ (conf_file_section = "" /\ conf_file_option = "")
    THEN RetRaise("AssertionError")
    ELSE IF environment_variable # "" /\ environ_truthy(environment_variable)
    THEN RetStr(environ[environment_variable])
    ELSE IF conf_file_section # "" /\ conf_file_option # ""
    THEN ConfigValueFromPaths(conf_file_section, conf_file_option)
    ELSE RetNone

(***************************************************************************)
(* Life cycle of one expectation: configured, validated, evaluated         *)
(***************************************************************************)
GcIdle ==
    /\ environ = <<>>
    /\ files = [p \in Paths |-> MissingFile]
    /\ call = NoCall
    /\ ret = RetNone

InitHK ==
    /\ configuration \in {[kwargs |-> kw] : kw \in KwargsInputs}
    /\ metrics \in MetricsInputs
    /\ pc = "constructed"
    /\ error = ""
    /\ result = NoResult
    /\ GcIdle

validate_configuration ==
    /\ pc = "constructed"
    /\ error' = ValidateConfigurationError(configuration.kwargs)
    /\ pc' = IF error' = "" THEN "configured" ELSE "rejected"
    /\ UNCHANGED <<configuration, metrics, result>>
    /\ UNCHANGED gcVars

_validate ==
    /\ pc = "configured"
    /\ result' = ValidateResult(configuration.kwargs, metrics)
    /\ pc' = "evaluated"
    /\ UNCHANGED <<configuration, metrics, error>>
    /\ UNCHANGED gcVars

NextHK == validate_configuration \/ _validate

Spec == InitHK /\ [][NextHK]_vars

(***************************************************************************)
(* Calls on a FileDataContext in a fixed environment                       *)
(***************************************************************************)
HkIdle ==
    /\ configuration = [kwargs |-> <<>>]
    /\ metrics = <<>>
    /\ pc = "idle"
    /\ error = ""
    /\ result = NoResult

\* the environment and the files the usage-statistics opt-out reads
InitOptOut ==
    /\ environ \in EnvironInputs({"GE_USAGE_STATS"}, EnabledStrings)
    /\ files \in [Paths -> FileInputs({"enabled"}, EnabledStrings)]
    /\ call = NoCall
    /\ ret = RetNone
    /\ HkIdle

\* the environment and the files a global config value is looked up in
InitGlobal ==
    /\ environ \in EnvironInputs(EnvVars, ValueStrings)
    /\ files \in [Paths -> FileInputs(Options, ValueStrings)]
    /\ call = NoCall
    /\ ret = RetNone
    /\ HkIdle

_check_global_usage_statistics_env_var_and_file_opt_out ==
    /\ call' = Call("_check_global_usage_statistics_env_var_and_file_opt_out", "", "", "")
    /\ ret' = check_global_usage_statistics_env_var_and_file_opt_out
    /\ UNCHANGED <<environ, files>>
    /\ UNCHANGED hkVars

_check_global_usage_statistics_opt_out ==
    /\ call' = Call("_check_global_usage_statistics_opt_out", "", "", "")
    /\ ret' = check_global_usage_statistics_env_var_and_file_opt_out
    /\ UNCHANGED <<environ, files>>
    /\ UNCHANGED hkVars

_get_global_config_value ==
    \E ev \in EnvVars \cup {""}, sec \in Sections \cup {""}, opt \in Options \cup {""} :
        /\ call' = Call("_get_global_config_value", ev, sec, opt)
        /\ ret' = get_global_config_value(ev, sec, opt)
        /\ UNCHANGED <<environ, files>>
        /\ UNCHANGED hkVars

_get_data_context_id_override ==
    /\ call' = Call("_get_data_context_id_override", "GE_DATA_CONTEXT_ID",
                    "anonymous_usage_statistics", "data_context_id")
    /\ ret' = get_global_config_value("GE_DATA_CONTEXT_ID",
                                      "anonymous_usage_statistics", "data_context_id")
    /\ UNCHANGED <<environ, files>>
    /\ UNCHANGED hkVars

NextOptOut ==
    \/ _check_global_usage_statistics_env_var_and_file_opt_out
    \/ _check_global_usage_statistics_opt_out

NextGlobal ==
    \/ _get_global_config_value
    \/ _get_data_context_id_override

SpecOptOut == InitOptOut /\ [][NextOptOut]_vars

SpecGlobal == InitGlobal /\ [][NextGlobal]_vars

(***************************************************************************)
(* Properties of ExpectQueriedColumnToBeHK                                 *)
(***************************************************************************)
kwValue == get(configuration.kwargs, "value")
kwThreshold == get(configuration.kwargs, "threshold")

\* a fraction in (0,1]
InUnitInterval(n) == 0 < n /\ n <= Denom

\* the thresholds the specification admits: one number in (0,1], or a
\* sequence of numbers in (0,1] whose sum is in (0,1]
AdmittedThreshold(t) ==
    \/ t.kind = "number" /\ InUnitInterval(t.num)
    \/ /\ t.kind = "list"
       /\ \A i \in DOMAIN t.items : t.items[i].kind = "number" /\ InUnitInterval(t.items[i].num)
       /\ InUnitInterval(sum(t.items))

\* ObservedFrequencies.get(length, default 0)
FrequencyOrZero(length) == IF length \in DOMAIN metrics THEN metrics[length] ELSE 0

SequenceMode ==
    /\ kwValue.kind = "list"
    /\ kwThreshold.kind = "list"
    /\ Len(kwValue.items) = Len(kwThreshold.items)

\* C1: in scalar mode, with a threshold t in (0,1] and a query result that
\* contains the target length L, _validate returns success = TRUE exactly
\* when the observed frequency of L is at least t (equality passes).
C1_ScalarSuccess ==
    ( /\ pc = "evaluated"
      /\ kwValue.kind = "number"
      /\ kwThreshold.kind = "number" /\ InUnitInterval(kwThreshold.num)
      /\ kwValue.num \in DOMAIN metrics )
    => /\ result.returned
       /\ result.success = (metrics[kwValue.num] >= kwThreshold.num)

\* scalar mode evaluated with the observed frequency equal to the threshold
C1_Witness ==
    /\ pc = "evaluated"
    /\ kwValue.kind = "number"
    /\ kwThreshold.kind = "number" /\ InUnitInterval(kwThreshold.num)
    /\ kwThreshold.num < Denom
    /\ kwValue.num \in DOMAIN metrics
    /\ metrics[kwValue.num] = kwThreshold.num
    /\ result.returned /\ result.success

\* C2: in sequence mode (equal-length value and threshold lists) _validate
\* returns success = AND over all positions i of (observed frequency of
\* value[i] >= threshold[i]), and observed_value is the list of those
\* observed frequencies in the order and length of value.
C2_SequenceSuccess ==
    (pc = "evaluated" /\ SequenceMode)
    => /\ result.returned
       /\ result.success =
            (\A i \in DOMAIN kwValue.items :
                FrequencyOrZero(kwValue.items[i].num) >= kwThreshold.items[i].num)
       /\ result.observed_value =
            List([i \in DOMAIN kwValue.items |-> Number(FrequencyOrZero(kwValue.items[i].num))])

\* The part of C2 the code keeps: whenever _validate returns in sequence
\* mode, success is the positional AND and observed_value the frequencies.
SequenceSuccessWhenReturned ==
    (pc = "evaluated" /\ SequenceMode /\ result.returned)
    => /\ result.success =
            (\A i \in DOMAIN kwValue.items :
                metrics[kwValue.items[i].num] >= kwThreshold.items[i].num)
       /\ result.observed_value =
            List([i \in DOMAIN kwValue.items |-> Number(metrics[kwValue.items[i].num])])

\* C3: a target length absent from the query result counts as frequency 0
\* and never raises: scalar mode returns success = FALSE with
\* observed_value = 0, sequence mode returns 0 at that position.
C3_MissingKeyIsZero ==
    /\ ( /\ pc = "evaluated"
         /\ kwValue.kind = "number"
         /\ kwThreshold.kind = "number" /\ InUnitInterval(kwThreshold.num)
         /\ kwValue.num \notin DOMAIN metrics )
       => /\ result.returned
          /\ result.success = FALSE
          /\ result.observed_value = Number(0)
    /\ (pc = "evaluated" /\ SequenceMode)
       => /\ result.returned
          /\ \A i \in DOMAIN kwValue.items :
                kwValue.items[i].num \notin DOMAIN metrics
                => result.observed_value.items[i] = Number(0)

\* C4: validate_configuration raises InvalidExpectationConfigurationError
\* for every threshold that is neither one number in (0,1] nor a sequence
\* of numbers in (0,1] whose sum is in (0,1].
C4_BadThresholdRejected ==
    (pc # "constructed" /\ ~AdmittedThreshold(kwThreshold))
    => error = "InvalidExpectationConfigurationError"

\* a list of two thresholds, each in (0,1], whose sum exceeds 1, rejected
C4_Witness ==
    /\ pc = "rejected"
    /\ error = "InvalidExpectationConfigurationError"
    /\ kwThreshold.kind = "list"
    /\ Len(kwThreshold.items) = 2
    /\ \A i \in DOMAIN kwThreshold.items :
          kwThreshold.items[i].kind = "number" /\ InUnitInterval(kwThreshold.items[i].num)
    /\ sum(kwThreshold.items) > Denom
    /\ kwValue.kind = "list" /\ Len(kwValue.items) = 2

\* C5: when value is a list, validate_configuration raises unless
\* threshold is a list of the same length.
C5_ListValueNeedsListThreshold ==
    ( /\ pc # "constructed"
      /\ kwValue.kind = "list"
      /\ ~(kwThreshold.kind = "list" /\ Len(kwThreshold.items) = Len(kwValue.items)) )
    => error = "InvalidExpectationConfigurationError"

\* C6: when threshold is a list that passes the range and sum checks,
\* validate_configuration raises unless value is a list of the same length.
C6_ListThresholdNeedsListValue ==
    ( /\ pc # "constructed"
      /\ kwThreshold.kind = "list"
      /\ AdmittedThreshold(kwThreshold)
      /\ ~(kwValue.kind = "list" /\ Len(kwValue.items) = Len(kwThreshold.items)) )
    => error = "InvalidExpectationConfigurationError"

\* an admitted threshold list paired with a longer value list, rejected
C6_Witness ==
    /\ pc = "rejected"
    /\ error = "InvalidExpectationConfigurationError"
    /\ kwThreshold.kind = "list"
    /\ AdmittedThreshold(kwThreshold)
    /\ kwValue.kind = "list"
    /\ Len(kwValue.items) > Len(kwThreshold.items)

\* kwargs with the declared defaults filled in for the omitted keys
WithDefaults(kwargs) ==
    [k \in {"value", "threshold"} |->
        IF k \in DOMAIN kwargs THEN kwargs[k] ELSE default_kwarg_values[k]]

\* C7: kwargs that omit 'value' and/or 'threshold' are validated and
\* evaluated exactly as if value = 32 and threshold = 1 had been given.
C7_DefaultsApplied ==
    (DOMAIN configuration.kwargs # {"value", "threshold"})
    => /\ pc # "constructed"
          => error = ValidateConfigurationError(WithDefaults(configuration.kwargs))
       /\ pc = "evaluated"
          => result = ValidateResult(WithDefaults(configuration.kwargs), metrics)

\* C8: every configuration validate_configuration accepts is evaluated by
\* _validate to a returned result, never to an exception.
C8_AcceptedNeverRaises ==
    pc = "evaluated" => (result.returned /\ result.exc = "")

(***************************************************************************)
(* Properties of FileDataContext                                           *)
(***************************************************************************)
\* the config file at position i holds a non-empty value for section/option
HoldsValue(i, section, option) ==
    LET f == files[GLOBAL_CONFIG_PATHS[i]]
    IN  /\ f.exists
        /\ section \in DOMAIN f.sections
        /\ option \in DOMAIN f.sections[section]
        /\ f.sections[section][option] # ""

ValueAt(i, section, option) == files[GLOBAL_CONFIG_PATHS[i]].sections[section][option]

EnvSetNonEmpty(name) == name # "" /\ name \in DOMAIN environ /\ environ[name] # ""

\* C9: _get_global_config_value returns the environment variable when it is
\* set to a non-empty string, whatever the config files hold; otherwise,
\* given a section and an option, the value of the first path of
\* GLOBAL_CONFIG_PATHS that holds a non-empty value for them; otherwise
\* None.  An environment variable set to "" counts as unset.
C9_Precedence ==
    ( /\ call.op = "_get_global_config_value"
      /\ (call.conf_file_section = "") = (call.conf_file_option = "") )
    => LET ev == call.environment_variable
           section == call.conf_file_section
           option == call.conf_file_option
           holders == {i \in DOMAIN GLOBAL_CONFIG_PATHS : HoldsValue(i, section, option)}
       IN  IF EnvSetNonEmpty(ev) THEN ret = RetStr(environ[ev])
           ELSE IF section # "" /\ holders # {}
           THEN \E i \in holders :
                    /\ \A j \in holders : i <= j
                    /\ ret = RetStr(ValueAt(i, section, option))
           ELSE ret = RetNone

\* the environment variable is set to "", both paths hold different
\* non-empty values, and the value of the first path is returned
C9_Witness ==
    /\ call.op = "_get_global_config_value"
    /\ call.environment_variable \in DOMAIN environ
    /\ environ[call.environment_variable] = ""
    /\ call.conf_file_section # "" /\ call.conf_file_option # ""
    /\ \A i \in DOMAIN GLOBAL_CONFIG_PATHS :
          HoldsValue(i, call.conf_file_section, call.conf_file_option)
    /\ ValueAt(1, call.conf_file_section, call.conf_file_option)
          # ValueAt(2, call.conf_file_section, call.conf_file_option)
    /\ ret = RetStr(ValueAt(1, call.conf_file_section, call.conf_file_option))

\* the file at config_path has [anonymous_usage_statistics] enabled set to
\* a string that parses to the boolean False
EnabledParsesFalse(config_path) ==
    LET f == files[config_path]
    IN  /\ f.exists
        /\ "anonymous_usage_statistics" \in DOMAIN f.sections
        /\ "enabled" \in DOMAIN f.sections["anonymous_usage_statistics"]
        /\ LET v == lower(f.sections["anonymous_usage_statistics"]["enabled"])
           IN  v \in DOMAIN BOOLEAN_STATES /\ ~BOOLEAN_STATES[v]

\* the file at config_path is missing, lacks the option, or holds a value
\* that parses to no boolean
SkippedFile(config_path) ==
    LET f == files[config_path]
    IN  \/ ~f.exists
        \/ "anonymous_usage_statistics" \notin DOMAIN f.sections
        \/ "enabled" \notin DOMAIN f.sections["anonymous_usage_statistics"]
        \/ lower(f.sections["anonymous_usage_statistics"]["enabled"]) \notin DOMAIN BOOLEAN_STATES

\* C10: the opt-out check returns True exactly when GE_USAGE_STATS is one
\* of FALSEY_STRINGS or some file of GLOBAL_CONFIG_PATHS has
\* [anonymous_usage_statistics] enabled parsing to false; it returns False
\* otherwise and never raises, whatever else the variable or the files hold.
C10_OptOut ==
    (call.op = "_check_global_usage_statistics_env_var_and_file_opt_out")
    => ret = RetBool( \/ ( /\ "GE_USAGE_STATS" \in DOMAIN environ
                           /\ environ["GE_USAGE_STATS"] \in FALSEY_STRINGS )
                      \/ \E config_path \in Paths : EnabledParsesFalse(config_path) )

\* GE_USAGE_STATS is non-empty but not falsey, the first file is skipped,
\* the second file disables the statistics, and the check returns True
C10_Witness ==
    /\ call.op = "_check_global_usage_statistics_env_var_and_file_opt_out"
    /\ "GE_USAGE_STATS" \in DOMAIN environ
    /\ environ["GE_USAGE_STATS"] \notin FALSEY_STRINGS \cup {""}
    /\ SkippedFile(GLOBAL_CONFIG_PATHS[1])
    /\ files[GLOBAL_CONFIG_PATHS[1]].exists
    /\ EnabledParsesFalse(GLOBAL_CONFIG_PATHS[2])
    /\ ret = RetBool(TRUE)

====
